---- MODULE Spec2Model ----
(***************************************************************************)
(* Model of src/main.py of incentive-logger: one invocation of the script  *)
(* (a "run") is a sequence of steps from the weekend check to one of the    *)
(* exit() calls or to an uncaught exception; runs follow each other one at  *)
(* a time, as the scheduler invokes them, and share only config.json and    *)
(* the system clock.                                                        *)
(*                                                                          *)
(* Text is a sequence of one-character strings, so that split, strip and    *)
(* re.sub are computed character by character.  Time is in whole seconds:   *)
(* the microsecond fraction of the timestamps plays no part in any          *)
(* comparison made by the script.  The local time zone has a fixed offset   *)
(* from UTC for the length of a behaviour.                                  *)
(***************************************************************************)
EXTENDS Integers, Sequences, FiniteSets, TLC

(***************************************************************************)
(* Bounds of the model                                                      *)
(***************************************************************************)
\* number of clock advances in one behaviour
MaxTicks == 4
\* largest hours_delay setting tried
MaxHoursDelay == 2
\* number of times the user edits "override": true into config.json
MaxOverrideEdits == 2
\* longest text node of the response bodies enumerated for the classifier
MaxTextLen == 2

(***************************************************************************)
(* Text helpers (str.strip, str.rstrip, str.split, re.sub)                 *)
(***************************************************************************)
Whitespace == {" ", "\n", "\t"}

RECURSIVE lstrip(_)
lstrip(s) ==
    IF s # <<>> /\ Head(s) \in Whitespace THEN lstrip(Tail(s)) ELSE s

RECURSIVE rstrip(_)
rstrip(s) ==
    IF s # <<>> /\ s[Len(s)] \in Whitespace
    THEN rstrip(SubSeq(s, 1, Len(s) - 1))
    ELSE s

strip(s) == lstrip(rstrip(s))

\* str.split(sep) for a one-character separator: always at least one piece
RECURSIVE split(_, _)
split(s, sep) ==
    IF \A i \in 1..Len(s) : s[i] # sep
    THEN <<s>>
    ELSE LET i == CHOOSE j \in 1..Len(s) :
                     s[j] = sep /\ \A k \in 1..(j - 1) : s[k] # sep
         IN  <<SubSeq(s, 1, i - 1)>> \o split(SubSeq(s, i + 1, Len(s)), sep)

\* re.sub(r"[\:\-]", "", string)
RECURSIVE RgxSub(_)
RgxSub(s) ==
    IF s = <<>> THEN <<>>
    ELSE IF Head(s) \in {":", "-"} THEN RgxSub(Tail(s))
    ELSE <<Head(s)>> \o RgxSub(Tail(s))

(***************************************************************************)
(* Time (datetime.fromtimestamp, datetime.timestamp, datetime.weekday)     *)
(***************************************************************************)
SecondsPerHour == 3600
SecondsPerDay == 86400
\* offset of the local zone from UTC, in seconds
TZOffset == 0 - 28800

\* naive local datetime of a POSIX timestamp, as seconds of local time
fromtimestamp(ts) == ts + TZOffset
\* POSIX timestamp of a naive local datetime
timestamp(dt) == dt - TZOffset
\* Monday is 0 and Sunday is 6; 1970-01-01 was a Thursday
weekday(dt) == ((dt \div SecondsPerDay) + 3) % 7

\* system clock values at which a behaviour starts:
\* Friday 1970-01-02 22:00 and Sunday 1970-01-04 23:00, local time
StartTimes ==
    { timestamp(1 * SecondsPerDay + 22 * SecondsPerHour),
      timestamp(3 * SecondsPerDay + 23 * SecondsPerHour) }
\* the clock advances by a second or by a second less than an hour
TickSteps == {1, SecondsPerHour - 1}

(***************************************************************************)
(* Inputs from the outside world                                            *)
(***************************************************************************)
ohsu == <<"o", "h", "s", "u">>
cafe == <<"c", "a", "f", "e">>
SSID == <<"S", "S", "I", "D">>

\* what "airport -I" may print
ProbeEmpty == <<>>
ProbeAirportOff == <<"A", "i", "r", "P", "o", "r", "t", ":", " ", "O", "f", "f">>
ProbeOnOhsu ==
    <<" ", "B", "S", "S", "I", "D", ":", " ", "a", "0", ":", "b", "1", "\n", " ", "S", "S", "I", "D", ":", " ", "o", "h", "s", "u">>
ProbeOnCafe ==
    <<" ", "B", "S", "S", "I", "D", ":", " ", "a", "0", ":", "b", "1", "\n", " ", "S", "S", "I", "D", ":", " ", "c", "a", "f", "e">>
ProbeEmptySSID ==
    <<" ", "B", "S", "S", "I", "D", ":", " ", "0", ":", "0", "\n", " ", "S", "S", "I", "D", ":", " ">>
ProbeNoSSIDKey ==
    <<" ", "s", "t", "a", "t", "e", ":", " ", "i", "n", "i", "t", "\n", " ", "o", "p", " ", "m", "o", "d", "e", ":", " ">>
ProbeOutputs ==
    { ProbeEmpty, ProbeAirportOff, ProbeOnOhsu, ProbeOnCafe, ProbeEmptySSID,
      ProbeNoSSIDKey }

\* what "security find-internet-password -w" may print
SecurityOutputs == { <<>>, <<"\n">>, <<"p", "w", "\n">> }

\* the values of valid_ssids tried
SSIDLists == { {}, {ohsu} }

(***************************************************************************)
(* Parsing of the probe output (line 238)                                   *)
(***************************************************************************)
\* the dict comprehension over the lines that contain ":"; a later line
\* with the same key replaces the earlier one
RECURSIVE NetworkOf(_)
NetworkOf(lines) ==
    IF lines = <<>> THEN <<>>
    ELSE LET rest == NetworkOf(SubSeq(lines, 1, Len(lines) - 1))
             line == lines[Len(lines)]
             parts == split(line, ":")
             key == strip(parts[1])
         IN  IF \E i \in 1..Len(line) : line[i] = ":"
             THEN [k \in (DOMAIN rest) \cup {key} |->
                      IF k = key THEN strip(parts[2]) ELSE rest[k]]
             ELSE rest

ParseNetwork(stdout) == NetworkOf(split(stdout, "\n"))

\* len(network)
NetworkLen(net) == Cardinality(DOMAIN net)

(***************************************************************************)
(* The response body and its classification (lines 281-298)                 *)
(*                                                                          *)
(* A body is the sequence of its elements in document order, each with its  *)
(* tag, its class attribute and its text nodes; the body without any        *)
(* element is the empty document.                                           *)
(***************************************************************************)
Element(tag, class, texts) == [tag |-> tag, class |-> class, texts |-> texts]

\* htmlDOM.xpath('//tag[@class="class"]/text()')
RECURSIVE xpath(_, _, _)
xpath(dom, tag, class) ==
    IF dom = <<>> THEN <<>>
    ELSE (IF Head(dom).tag = tag /\ Head(dom).class = class
          THEN Head(dom).texts ELSE <<>>) \o xpath(Tail(dom), tag, class)

\* an extraction that discards the texts left empty by the substitution
RECURSIVE DetailsDiscardEmpty(_)
DetailsDiscardEmpty(texts) ==
    IF texts = <<>> THEN <<>>
    ELSE (IF Len(strip(RgxSub(Head(texts)))) > 0
          THEN <<strip(RgxSub(Head(texts)))>> ELSE <<>>)
             \o DetailsDiscardEmpty(Tail(texts))

\* [Rgx.sub(r"[\:\-]", "", string).strip() for string in texts
\*                                          if len(string.strip()) > 0]
RECURSIVE Details(_)
Details(texts) ==
    IF texts = <<>> THEN <<>>
    ELSE (IF Len(strip(Head(texts))) > 0
          THEN <<strip(RgxSub(Head(texts)))>> ELSE <<>>) \o Details(Tail(texts))

TripLoggedOK == <<"T", "r", "i", "p", " ", "l", "o", "g", "g", "e", "d", ":", " ", "O", "K">>
AlreadyLogged == <<"A", "l", "r", "e", "a", "d", "y", " ", "l", "o", "g", "g", "e", "d">>

BodyEmpty == <<>>
BodyOtherPage == << Element("div", "", <<>>) >>
BodySuccess ==
    << Element("p", "notification", <<AlreadyLogged>>),
       Element("span", "success", <<TripLoggedOK>>) >>
BodyNotification == << Element("p", "notification", <<AlreadyLogged>>) >>
BodyDash == << Element("span", "success", << <<" ", "-", " ">> >>) >>

\* the bodies a POST may return in a run
ResponseBodies ==
    { BodyEmpty, BodyOtherPage, BodySuccess, BodyNotification, BodyDash }

(***************************************************************************)
(* State                                                                    *)
(***************************************************************************)
VARIABLES
    configFile,           \* contents of config/config.json
    clock,                \* system clock, POSIX seconds
    ticks,                \* number of clock advances so far
    settings,             \* number of times the user has set override to true
    pc,                   \* position of the script: "idle" before the first
                          \* run, a stage name during a run, "exited" after it
    outcome,              \* how the last run ended, "None" before that
    argv,                 \* whether the command line has -o or --override
    config,               \* the dict loaded from config.json (line 156)
    override,             \* line 161
    delay,                \* line 163
    lastSuccess,          \* line 181: <<>> for None, <<t>> for a timestamp
    currentDatetime,      \* line 183, seconds of local time
    network,              \* line 238
    password,             \* line 253
    response,             \* line 278: the body returned by the POST
    notificationDetails,  \* line 287
    successDetails,       \* line 293
    calls,                \* what the run has done to the outside world so
                          \* far, and how many of its requests have raised
    startFile,            \* configFile as it was when the run started
    lastRun,              \* <<currentDatetime>> of the last run that ended,
                          \* if it ended in a success, and <<>> otherwise
    prev,                 \* lastRun as it was when the run started
    consumed              \* classified submissions of runs that found
                          \* override set in config.json

vars ==
    << configFile, clock, ticks, settings, pc, outcome, argv, config, override,
       delay, lastSuccess, currentDatetime, network, password, response,
       notificationDetails, successDetails, calls, startFile, lastRun, prev,
       consumed >>

runLocals ==
    << argv, config, override, delay, lastSuccess, currentDatetime, network,
       password, response, notificationDetails, successDetails >>

environment == << clock, ticks, settings >>

history == << startFile, prev, consumed >>

\* the value of a variable of the script that has not been assigned yet
Unset ==
    [last_success |-> 0, override |-> FALSE, hours_delay |-> 0,
     valid_ssids |-> {}, username |-> ""]

NoCalls ==
    [probe |-> 0, security |-> 0, get |-> 0, post |-> 0, write |-> 0,
     raised |-> 0]

\* last_success values a configuration may hold at the start of a behaviour:
\* a success of Friday 1970-01-02 21:00, local time
PastSuccesses == { timestamp(1 * SecondsPerDay + 21 * SecondsPerHour) }

Init ==
    /\ clock \in StartTimes
    /\ configFile \in
         [last_success : {0} \cup {t \in PastSuccesses : t <= clock},
          override : BOOLEAN,
          hours_delay : 0..MaxHoursDelay,
          valid_ssids : SSIDLists,
          username : {"rider"}]
    /\ ticks = 0
    /\ settings = IF configFile.override THEN 1 ELSE 0
    /\ pc = "idle"
    /\ outcome = "None"
    /\ argv = FALSE
    /\ config = Unset
    /\ override = FALSE
    /\ delay = 0
    /\ lastSuccess = <<>>
    /\ currentDatetime = 0
    /\ network = <<>>
    /\ password = <<>>
    /\ response = <<>>
    /\ notificationDetails = <<>>
    /\ successDetails = <<>>
    /\ calls = NoCalls
    /\ startFile = configFile
    /\ lastRun = <<>>
    /\ prev = <<>>
    /\ consumed = 0

(***************************************************************************)
(* Decisions of the script                                                  *)
(***************************************************************************)
\* a weekend check that lets Saturday through
IsWeekendSundayOnly(dt) == weekday(dt) > 5

\* line 138
IsWeekend(dt) == weekday(dt) > 4

\* line 161
MergeOverride(cli, cfg) == IF cli THEN cli ELSE cfg.override

\* line 163
Delay(cfg) == 60 * 60 * cfg.hours_delay

\* line 181
LastSuccess(cfg) == IF cfg.last_success > 0 THEN <<cfg.last_success>> ELSE <<>>

\* a gate that compares the POSIX timestamp of now with the local time of
\* the last success
GateOpenMixedZones(ov, last, cur, d) ==
    \/ ov
    \/ last = <<>>
    \/ timestamp(cur) - fromtimestamp(last[1]) >= d

\* a gate that stays shut when exactly the delay has passed
GateOpenStrict(ov, last, cur, d) ==
    \/ ov
    \/ last = <<>>
    \/ cur - fromtimestamp(last[1]) > d

\* a gate that does not wait for the delay
GateOpenNoDelay(ov, last, cur, d) ==
    \/ ov
    \/ last = <<>>
    \/ cur - fromtimestamp(last[1]) >= 0

\* line 229
GateOpen(ov, last, cur, d) ==
    \/ ov
    \/ last = <<>>
    \/ cur - fromtimestamp(last[1]) >= d

\* line 241 raises KeyError when the dict has two entries or more and none
\* of them is "SSID"
KeyError241(net) == NetworkLen(net) > 1 /\ SSID \notin DOMAIN net

\* a network check that does not look at valid_ssids
NetworkValidAnySSID(net, valid, ov) == NetworkLen(net) > 1

\* a network check that override does not get past
NetworkValidNoOverride(net, valid, ov) ==
    NetworkLen(net) > 1 /\ net[SSID] \in valid

\* a network check that lets override through without counting the fields
NetworkValidNoCount(net, valid, ov) ==
    \/ ov
    \/ NetworkLen(net) > 1 /\ net[SSID] \in valid

\* line 241
NetworkValid(net, valid, ov) ==
    NetworkLen(net) > 1 /\ (net[SSID] \in valid \/ ov)

\* line 320 raises KeyError when the dict is empty
KeyError320(net) == NetworkLen(net) # 1 /\ SSID \notin DOMAIN net

\* line 320
NoConnection(net) == NetworkLen(net) = 1 \/ Len(net[SSID]) = 0

\* a credential check that takes every password
PasswordMissingNever(pw) == Len(pw) < 0

\* line 255
PasswordMissing(pw) == Len(pw) < 1

\* a success that leaves override as it is
ConfigOnSuccessKeepsOverride(cfg, cur) ==
    [cfg EXCEPT !.last_success = timestamp(cur)]

\* a success that records the local time without converting it
ConfigOnSuccessLocalTime(cfg, cur) ==
    [cfg EXCEPT !.last_success = cur, !.override = FALSE]

\* a success that records no time
ConfigOnSuccessNoTimestamp(cfg, cur) == [cfg EXCEPT !.override = FALSE]

\* lines 301-305
ConfigOnSuccess(cfg, cur) ==
    [cfg EXCEPT !.last_success = timestamp(cur), !.override = FALSE]

\* a rejection that forgets the last success
ConfigOnRejectedResetsTime(cfg) ==
    [cfg EXCEPT !.last_success = 0, !.override = FALSE]

\* a rejection that writes override as requested
ConfigOnRejectedSetsOverride(cfg) == [cfg EXCEPT !.override = TRUE]

\* a rejection that leaves override as it is
ConfigOnRejectedKeepsOverride(cfg) == cfg

\* lines 309-312
ConfigOnRejected(cfg) == [cfg EXCEPT !.override = FALSE]

\* the run goes on to the next stage
Continue(stage) == pc' = stage /\ outcome' = outcome /\ lastRun' = lastRun

\* the run ends: one of the exit() calls, or an uncaught exception
Exit(o) ==
    /\ pc' = "exited"
    /\ outcome' = o
    /\ lastRun' = IF o = "Success" THEN <<currentDatetime>> ELSE <<>>

\* once the process is gone, so are its variables
Forget ==
    /\ pc' = "idle"
    /\ outcome' = "None"
    /\ argv' = FALSE
    /\ config' = Unset
    /\ override' = FALSE
    /\ delay' = 0
    /\ lastSuccess' = <<>>
    /\ currentDatetime' = 0
    /\ network' = <<>>
    /\ password' = <<>>
    /\ response' = <<>>
    /\ notificationDetails' = <<>>
    /\ successDetails' = <<>>
    /\ calls' = NoCalls

(***************************************************************************)
(* The steps of a run                                                       *)
(***************************************************************************)
\* lines 135-183: the weekend check, the arguments, the configuration
StartRun(cli) ==
    /\ pc \in {"idle", "exited"}
    /\ startFile' = configFile
    /\ prev' = lastRun
    /\ argv' = cli
    /\ calls' = NoCalls
    /\ network' = <<>>
    /\ password' = <<>>
    /\ response' = <<>>
    /\ notificationDetails' = <<>>
    /\ successDetails' = <<>>
    /\ IF IsWeekend(fromtimestamp(clock))
       THEN /\ Exit("NotAWeekday")
            /\ config' = Unset
            /\ override' = FALSE
            /\ delay' = 0
            /\ lastSuccess' = <<>>
            /\ currentDatetime' = 0
       ELSE /\ pc' = "gate"
            /\ outcome' = "None"
            /\ lastRun' = lastRun
            /\ config' = configFile
            /\ override' = MergeOverride(argv', configFile)
            /\ delay' = Delay(configFile)
            /\ lastSuccess' = LastSuccess(configFile)
            /\ currentDatetime' = fromtimestamp(clock)
    /\ UNCHANGED << configFile, environment, consumed >>

\* lines 229 and 332-339
GateCheck ==
    /\ pc = "gate"
    /\ IF GateOpen(override, lastSuccess, currentDatetime, delay)
       THEN Continue("network")
       ELSE Exit("Delayed")
    /\ UNCHANGED << configFile, environment, runLocals, calls, history >>

\* lines 236-247 and 317-330
NetworkCheck(stdout) ==
    /\ pc = "network"
    /\ network' = ParseNetwork(stdout)
    /\ calls' = [calls EXCEPT !.probe = @ + 1]
    /\ IF KeyError241(network')
       THEN Exit("KeyError")
       ELSE IF NetworkValid(network', config.valid_ssids, override)
       THEN Continue("credential")
       ELSE IF KeyError320(network')
       THEN Exit("KeyError")
       ELSE IF NoConnection(network')
       THEN Exit("NoConnection")
       ELSE Exit("InvalidNetwork")
    /\ UNCHANGED << configFile, environment, argv, config, override, delay,
                    lastSuccess, currentDatetime, password, response,
                    notificationDetails, successDetails, history >>

\* lines 249-257
CredentialFetch(stdout) ==
    /\ pc = "credential"
    /\ password' = rstrip(stdout)
    /\ calls' = [calls EXCEPT !.security = @ + 1]
    /\ IF PasswordMissing(password')
       THEN Exit("NoCredential")
       ELSE Continue("login")
    /\ UNCHANGED << configFile, environment, argv, config, override, delay,
                    lastSuccess, currentDatetime, network, response,
                    notificationDetails, successDetails, history >>

\* a login that tries the GET once more when it raises
LoginRetries(returns) ==
    /\ pc = "login"
    /\ calls' = [calls EXCEPT !.get = @ + 1,
                              !.raised = IF returns THEN @ ELSE @ + 1]
    /\ IF returns \/ calls.get >= 1
       THEN Continue("submit")
       ELSE Continue("login")
    /\ UNCHANGED << configFile, environment, runLocals, history >>

\* a login that catches what the GET raises and goes on to the POST
LoginSwallows(returns) ==
    /\ pc = "login"
    /\ calls' = [calls EXCEPT !.get = @ + 1,
                              !.raised = IF returns THEN @ ELSE @ + 1]
    /\ Continue("submit")
    /\ UNCHANGED << configFile, environment, runLocals, history >>

\* lines 266-275: the GET returns a response, whatever its status, or
\* raises
Login(returns) ==
    /\ pc = "login"
    /\ calls' = [calls EXCEPT !.get = @ + 1,
                              !.raised = IF returns THEN @ ELSE @ + 1]
    /\ IF returns
       THEN Continue("submit")
       ELSE Exit("ConnectionError")
    /\ UNCHANGED << configFile, environment, runLocals, history >>

\* lines 277-279: the POST returns a response, whatever its status, or
\* raises
Submit(returns, body) ==
    /\ pc = "submit"
    /\ calls' = [calls EXCEPT !.post = @ + 1,
                              !.raised = IF returns THEN @ ELSE @ + 1]
    /\ IF returns
       THEN Continue("classify") /\ response' = body
       ELSE Exit("ConnectionError") /\ response' = response
    /\ UNCHANGED << configFile, environment, argv, config, override, delay,
                    lastSuccess, currentDatetime, network, password,
                    notificationDetails, successDetails, history >>

\* lines 281-315: html.fromstring raises ParserError on the empty document
ClassifyResponse ==
    /\ pc = "classify"
    /\ IF response = <<>>
       THEN /\ Exit("ParserError")
            /\ UNCHANGED << configFile, config, notificationDetails,
                            successDetails, calls, consumed >>
       ELSE /\ notificationDetails' =
                   Details(xpath(response, "p", "notification"))
            /\ successDetails' = Details(xpath(response, "span", "success"))
            /\ IF Len(successDetails') > 0
               THEN /\ config' = ConfigOnSuccess(config, currentDatetime)
                    /\ Exit("Success")
               ELSE /\ config' = ConfigOnRejected(config)
                    /\ Exit("Rejected")
            /\ configFile' = config'
            /\ calls' = [calls EXCEPT !.write = @ + 1]
            /\ consumed' = consumed + (IF startFile.override THEN 1 ELSE 0)
    /\ UNCHANGED << environment, argv, override, delay, lastSuccess,
                    currentDatetime, network, password, response, startFile,
                    prev >>

(***************************************************************************)
(* The environment                                                          *)
(***************************************************************************)
\* time passes.  A run reads the clock only as it starts (lines 138 and 183),
\* so time that passes during a run has the effect of time that passes
\* right after it.
Tick(d) ==
    /\ pc \in {"idle", "exited"}
    /\ ticks < MaxTicks
    /\ clock' = clock + d
    /\ ticks' = ticks + 1
    /\ Forget
    /\ UNCHANGED << configFile, settings, lastRun, history >>

\* between two runs the user edits "override": true into config.json
UserSetsOverride ==
    /\ pc \in {"idle", "exited"}
    /\ ~configFile.override
    /\ settings < MaxOverrideEdits
    /\ configFile' = [configFile EXCEPT !.override = TRUE]
    /\ settings' = settings + 1
    /\ Forget
    /\ UNCHANGED << clock, ticks, lastRun, history >>

Next ==
    \/ \E cli \in BOOLEAN : StartRun(cli)
    \/ GateCheck
    \/ \E stdout \in ProbeOutputs : NetworkCheck(stdout)
    \/ \E stdout \in SecurityOutputs : CredentialFetch(stdout)
    \/ \E returns \in BOOLEAN : Login(returns)
    \/ \E returns \in BOOLEAN, body \in ResponseBodies : Submit(returns, body)
    \/ ClassifyResponse
    \/ \E d \in TickSteps : Tick(d)
    \/ UserSetsOverride

Spec == Init /\ [][Next]_vars

(***************************************************************************)
(* The classification alone, over every small response body                 *)
(***************************************************************************)
TextAlphabet == {" ", ":", "-", "a"}

Texts == UNION { [1..n -> TextAlphabet] : n \in 0..MaxTextLen }

TextElements ==
    UNION { { Element("span", "success", <<t>>),
              Element("p", "notification", <<t>>),
              Element("p", "success", <<t>>) } : t \in Texts }

\* one element or two with a text node each, and the bodies of the runs
ClassifierBodies ==
    { <<e>> : e \in TextElements }
        \cup { <<e1, e2>> : e1 \in TextElements, e2 \in TextElements }
        \cup (ResponseBodies \ {BodyEmpty})

\* a run of Friday 22:00 that has just received the response to its POST
InitClassifier ==
    /\ clock = timestamp(1 * SecondsPerDay + 22 * SecondsPerHour)
    /\ configFile =
         [last_success |-> 0, override |-> FALSE, hours_delay |-> 1,
          valid_ssids |-> {ohsu}, username |-> "rider"]
    /\ ticks = 0
    /\ settings = 0
    /\ pc = "classify"
    /\ outcome = "None"
    /\ argv = FALSE
    /\ config = configFile
    /\ override = MergeOverride(argv, config)
    /\ delay = Delay(config)
    /\ lastSuccess = LastSuccess(config)
    /\ currentDatetime = fromtimestamp(clock)
    /\ network = ParseNetwork(ProbeOnOhsu)
    /\ password = <<"p", "w">>
    /\ response \in ClassifierBodies
    /\ notificationDetails = <<>>
    /\ successDetails = <<>>
    /\ calls =
         [probe |-> 1, security |-> 1, get |-> 1, post |-> 1, write |-> 0,
          raised |-> 0]
    /\ startFile = configFile
    /\ lastRun = <<>>
    /\ prev = <<>>
    /\ consumed = 0

NextClassifier == ClassifyResponse

SpecClassifier == InitClassifier /\ [][NextClassifier]_vars

(***************************************************************************)
(* Properties                                                               *)
(***************************************************************************)
\* a run is under way or has just ended; the clock then still shows the
\* time at which it started
InRun == pc # "idle"

Ended == pc = "exited"

\* the run has not touched the outside world
NothingDone == calls = NoCalls /\ configFile = startFile

\* override is requested, on the command line or in config.json
Requested == argv \/ startFile.override

\* seconds between the last success on file and the start of the run
Elapsed == clock - startFile.last_success

Cooldown == SecondsPerHour * startFile.hours_delay

OnWeekend == weekday(fromtimestamp(clock)) \in {5, 6}

\* C1: a run started on a Saturday or a Sunday ends at NotAWeekday whatever
\* the configuration and the command line: no probe, no credential fetch,
\* no HTTP request, no write, config.json as it was.
C1_WeekendBlackout ==
    (InRun /\ OnWeekend) =>
        /\ Ended
        /\ outcome = "NotAWeekday"
        /\ NothingDone

C1_Witness ==
    /\ Ended
    /\ OnWeekend
    /\ argv
    /\ startFile.override
    /\ startFile.last_success > 0
    /\ outcome = "NotAWeekday"

\* C2: a weekday run without override, with a last success on file less
\* than the cooldown ago, ends Delayed and does nothing to the outside
\* world.
C2_CooldownDelays ==
    (/\ InRun
     /\ ~OnWeekend
     /\ ~Requested
     /\ startFile.last_success > 0
     /\ Elapsed < Cooldown) =>
        /\ pc \in {"gate", "exited"}
        /\ Ended => outcome = "Delayed"
        /\ NothingDone

C2_Witness ==
    /\ Ended
    /\ ~OnWeekend
    /\ ~Requested
    /\ startFile.last_success > 0
    /\ Elapsed = Cooldown - 1
    /\ outcome = "Delayed"

\* C3 as claimed: with override, a run whose probe shows fewer than two
\* fields or an empty SSID never fetches the credential nor submits.
C3_Original ==
    (/\ InRun
     /\ override
     /\ calls.probe > 0
     /\ \/ NetworkLen(network) < 2
        \/ SSID \in DOMAIN network /\ network[SSID] = <<>>) =>
        /\ calls.security = 0
        /\ calls.get = 0
        /\ calls.post = 0

\* C3 as amended: with override a weekday run is never Delayed, a weekend
\* run still ends at NotAWeekday, and a run whose probe shows fewer than
\* two fields never fetches the credential nor submits.
C3_OverrideLimits ==
    /\ (Ended /\ ~OnWeekend /\ Requested) => outcome # "Delayed"
    /\ (InRun /\ OnWeekend /\ Requested) =>
          Ended /\ outcome = "NotAWeekday" /\ NothingDone
    /\ (InRun /\ Requested /\ calls.probe > 0 /\ NetworkLen(network) < 2) =>
          /\ Ended
          /\ calls.security = 0
          /\ calls.get = 0
          /\ calls.post = 0
          /\ calls.write = 0

C3_Witness ==
    /\ Ended
    /\ ~OnWeekend
    /\ Requested
    /\ startFile.last_success > 0
    /\ Elapsed < Cooldown
    /\ calls.probe = 1
    /\ NetworkLen(network) = 1
    /\ outcome = "NoConnection"

\* C4: a run writes config.json exactly when it ends in Success or in
\* Rejected, and then leaves override false on file; a run that ends in any
\* other way, and a run that has not ended, leaves config.json as it was.
C4_OnlyAttemptsWrite ==
    InRun =>
        IF Ended /\ outcome \in {"Success", "Rejected"}
        THEN calls.write = 1 /\ ~configFile.override
        ELSE calls.write = 0 /\ configFile = startFile

C4_Witness ==
    /\ Ended
    /\ outcome = "Rejected"
    /\ startFile.override
    /\ ~configFile.override
    /\ calls.write = 1

\* C5 as claimed: after every run that issued the POST, override is false
\* on file.
C5_Original == (Ended /\ calls.post > 0) => ~configFile.override

\* C5 as amended: after every run whose submission was classified, as
\* Success or as Rejected, override is false on file; and the classified
\* submissions of runs that found override set on file are never more than
\* the times the user has set it.
C5_OneShot ==
    /\ (Ended /\ outcome \in {"Success", "Rejected"}) =>
          calls.post = 1 /\ ~configFile.override
    /\ consumed <= settings

C5_Witness ==
    /\ Ended
    /\ outcome = "Success"
    /\ startFile.override
    /\ ~configFile.override
    /\ settings = 2
    /\ consumed = 2

\* C6: last_success on file, once set, never decreases; it changes only
\* as a run ends in Success, and then to the time at which that run
\* started.
C6_LastSuccessMonotone ==
    [][/\ configFile.last_success > 0 =>
             configFile'.last_success >= configFile.last_success
       /\ configFile'.last_success # configFile.last_success =>
             /\ outcome' = "Success"
             /\ configFile'.last_success = clock]_vars

C6_Witness ==
    /\ Ended
    /\ outcome = "Success"
    /\ Requested
    /\ startFile.last_success > 0
    /\ Elapsed < Cooldown
    /\ configFile.last_success > startFile.last_success

\* C7: a run without override that starts on the day of a run that ended
\* in Success, less than the cooldown after it, the cooldown being
\* positive, ends Delayed and does nothing to the outside world.
C7_SecondRunDelayed ==
    (/\ InRun
     /\ prev # <<>>
     /\ ~Requested
     /\ Cooldown > 0
     /\ fromtimestamp(clock) - prev[1] < Cooldown
     /\ fromtimestamp(clock) \div SecondsPerDay = prev[1] \div SecondsPerDay) =>
        /\ pc \in {"gate", "exited"}
        /\ Ended => outcome = "Delayed"
        /\ NothingDone

C7_Witness ==
    /\ Ended
    /\ prev # <<>>
    /\ ~Requested
    /\ Cooldown > 0
    /\ fromtimestamp(clock) = prev[1]
    /\ outcome = "Delayed"
    /\ NothingDone

\* C8 as claimed: a run whose probe shows fewer than two fields, none
\* included, ends in NoConnection without a write.
C8_Claim ==
    (Ended /\ calls.probe > 0 /\ NetworkLen(network) < 2) =>
        /\ outcome = "NoConnection"
        /\ calls.write = 0
        /\ configFile = startFile

\* C9: a weekday run without override whose probe shows two fields or
\* more and a non-empty SSID that is not in valid_ssids ends in
\* InvalidNetwork: no credential fetch, no HTTP request, no write.
C9_InvalidNetwork ==
    (/\ InRun
     /\ ~Requested
     /\ calls.probe > 0
     /\ NetworkLen(network) >= 2
     /\ SSID \in DOMAIN network
     /\ network[SSID] # <<>>
     /\ network[SSID] \notin startFile.valid_ssids) =>
        /\ Ended
        /\ outcome = "InvalidNetwork"
        /\ calls.security = 0
        /\ calls.get = 0
        /\ calls.post = 0
        /\ calls.write = 0
        /\ configFile = startFile

C9_Witness ==
    /\ Ended
    /\ ~Requested
    /\ calls.probe = 1
    /\ SSID \in DOMAIN network
    /\ network[SSID] = cafe
    /\ startFile.valid_ssids = {ohsu}
    /\ outcome = "InvalidNetwork"

\* the text nodes of the success elements of the response
SuccessTexts == xpath(response, "span", "success")

\* some character of the text is not white space
NonBlank(t) == \E i \in 1..Len(t) : t[i] \notin Whitespace

\* some character of the text is neither white space nor ":" nor "-"
Meaningful(t) ==
    \E i \in 1..Len(t) : t[i] \notin Whitespace \cup {":", "-"}

Classified == Ended /\ outcome \in {"Success", "Rejected"}

TripLoggedOKStripped == <<"T", "r", "i", "p", " ", "l", "o", "g", "g", "e", "d", " ", "O", "K">>

\* C10 as claimed: the outcome is Success exactly when some success text
\* is left non-empty by trimming and by removing ":" and "-".
C10_Original ==
    Classified =>
        (outcome = "Success" <=>
            \E i \in DOMAIN SuccessTexts : Meaningful(SuccessTexts[i]))

\* C10 as amended: the outcome is Success exactly when some success text
\* is left non-empty by trimming alone; the success list has one entry for
\* each such text, free of ":" and "-" and trimmed, which may be empty;
\* "Trip logged: OK" gives "Trip logged OK", and a body with a notification
\* only is Rejected.
C10_Classification ==
    Classified =>
        /\ outcome = "Success" <=>
              \E i \in DOMAIN SuccessTexts : NonBlank(SuccessTexts[i])
        /\ Len(successDetails) =
              Cardinality({i \in DOMAIN SuccessTexts :
                              NonBlank(SuccessTexts[i])})
        /\ \A j \in DOMAIN successDetails :
              LET d == successDetails[j]
              IN  /\ \A i \in 1..Len(d) : d[i] \notin {":", "-"}
                  /\ d # <<>> =>
                        d[1] \notin Whitespace /\ d[Len(d)] \notin Whitespace
        /\ response = BodySuccess =>
              successDetails = <<TripLoggedOKStripped>>
        /\ response = BodyNotification =>
              outcome = "Rejected" /\ notificationDetails = <<AlreadyLogged>>

C10_Witness ==
    /\ Classified
    /\ response = BodyDash
    /\ outcome = "Success"
    /\ successDetails = << <<>> >>

\* the gate condition of the run, from config.json and the command line
GateCondition ==
    \/ Requested
    \/ startFile.last_success = 0
    \/ Elapsed >= Cooldown

\* C11: a run whose credential lookup gives an empty secret ends in
\* NoCredential: no HTTP request, no write, last_success and override on
\* file as they were.
C11_NoCredential ==
    (InRun /\ calls.security > 0 /\ password = <<>>) =>
        /\ Ended
        /\ outcome = "NoCredential"
        /\ calls.get = 0
        /\ calls.post = 0
        /\ calls.write = 0
        /\ configFile = startFile

C11_Witness ==
    /\ Ended
    /\ calls.security = 1
    /\ password = <<>>
    /\ outcome = "NoCredential"
    /\ startFile.override
    /\ configFile.override

C14_RewriteFrame ==
    /\ (Ended /\ outcome = "Success") =>
          configFile =
              [startFile EXCEPT !.last_success = clock, !.override = FALSE]
    /\ (Ended /\ outcome = "Rejected") =>
          configFile = [startFile EXCEPT !.override = FALSE]

C14_Witness ==
    /\ Ended
    /\ outcome = "Rejected"
    /\ argv
    /\ ~startFile.override
    /\ startFile.last_success > 0
    /\ startFile.hours_delay = 2
    /\ startFile.valid_ssids = {ohsu}
    /\ configFile = startFile

C16_TransportFailure ==
    (InRun /\ calls.raised > 0) =>
        /\ Ended
        /\ outcome = "ConnectionError"
        /\ calls.raised = 1
        /\ notificationDetails = <<>>
        /\ successDetails = <<>>
        /\ calls.write = 0
        /\ configFile = startFile

C16_Witness ==
    /\ Ended
    /\ calls.post = 1
    /\ calls.raised = 1
    /\ outcome = "ConnectionError"
    /\ startFile.override
    /\ configFile.override

\* C17 as claimed: a run whose POST returned the empty body ends in
\* Rejected, with empty lists, override false and last_success as it was.
C17_Claim ==
    (/\ Ended
     /\ calls.post = 1
     /\ calls.raised = 0
     /\ response = BodyEmpty) =>
        /\ outcome = "Rejected"
        /\ notificationDetails = <<>>
        /\ successDetails = <<>>
        /\ ~configFile.override
        /\ configFile.last_success = startFile.last_success

\* C18: no run writes override as true: during and after a run, override
\* on file is what it was when the run started, or false; an override of
\* the command line alone is never on file.
C18_OverrideNeverPersisted ==
    InRun =>
        /\ configFile.override => startFile.override
        /\ (argv /\ ~startFile.override) => ~configFile.override
        /\ calls.write > 0 => ~configFile.override

C18_Witness ==
    /\ Ended
    /\ argv
    /\ ~startFile.override
    /\ override
    /\ outcome = "Rejected"
    /\ calls.write = 1
    /\ ~configFile.override

\* C19: without override no request is made less than the cooldown after
\* the last success on file, and a Success is recorded no less than the
\* cooldown after the success recorded before it.
C19_SuccessesApart ==
    (InRun /\ ~Requested /\ startFile.last_success > 0) =>
        /\ (calls.get > 0 \/ calls.post > 0) => Elapsed >= Cooldown
        /\ (Ended /\ outcome = "Success") =>
              configFile.last_success - startFile.last_success >= Cooldown

C19_Witness ==
    /\ Ended
    /\ ~Requested
    /\ prev # <<>>
    /\ Cooldown > 0
    /\ outcome = "Success"
    /\ configFile.last_success - timestamp(prev[1]) = Cooldown

\* C20: the stages come in order: the probe runs only on a weekday with
\* the gate open, the credential store is queried only after a probe with
\* two fields or more whose SSID is in valid_ssids or with override, a
\* request is made only with a non-empty secret; a run that ends in
\* NotAWeekday, Delayed, NoConnection or InvalidNetwork has not read the
\* secret.
C20_StagesInOrder ==
    /\ calls.probe > 0 => ~OnWeekend /\ GateCondition
    /\ calls.security > 0 =>
          /\ calls.probe = 1
          /\ NetworkLen(network) >= 2
          /\ network[SSID] \in startFile.valid_ssids \/ Requested
    /\ calls.get > 0 => calls.security = 1 /\ password # <<>>
    /\ calls.post > 0 => calls.get = 1
    /\ (Ended /\ outcome \in {"NotAWeekday", "Delayed", "NoConnection",
                              "InvalidNetwork"}) =>
          calls.security = 0 /\ password = <<>> /\ calls.get = 0

C20_Witness ==
    /\ Ended
    /\ outcome = "Rejected"
    /\ ~Requested
    /\ startFile.last_success > 0
    /\ calls.probe = 1
    /\ calls.security = 1
    /\ calls.get = 1
    /\ calls.post = 1

====
